---------------------------- MODULE Spec2Model ----------------------------
(*
  A model of psched.py: the Time value, the not_before / not_after checkers,
  the WaitTimeCounter, Events.iterate and the Schedule (score, refresh,
  compete, optimize, render, individual_wait_times).

  Conventions
    * A Time is the datetime it wraps, kept as its fields [day, hour, minute]
      (the year and month never change within the bounds used here).
    * Python indices are 0-based: a permutation holds the values 0..m-1 and
      TLA+ sequences are 1-based, so events[idx] is written evs[idx + 1].
    * Event names are strings, pairwise distinct, taken from Names.
    * A constraint closure is the record [kind, t] of what it closes over.
    * A random draw is a nondeterministic choice over its outcomes.
*)
EXTENDS Integers, Sequences, FiniteSets, TLC

VARIABLES
    now,          \* SpecTime: a Time instance x
    thr,          \* SpecTime: the Time a checker was built with
    verdict,      \* SpecTime: the last checker call and what it returned
    assoc,        \* SpecTime: the last pair of sums (t + d1) + d2, t + (d1 + d2)
    events,       \* the Events object: its list and its five parameters
    perm,         \* SpecIter / SpecWalk: the order handed to Events.iterate
    agenda,       \* SpecIter / SpecWalk: the items iterate yielded, in order
    wtc,          \* SpecWalk: one WaitTimeCounter [observed, constraints, active, total_time]
    pos,          \* SpecWalk: how many agenda items have been appended
    t,            \* SpecWalk: the clock of the scoring pass
    ret,          \* SpecWalk: what the last append returned
    stakeholders, \* Schedule.stakeholders: name -> [focus, constraints]
    t0,           \* Schedule.t0
    n,            \* Schedule.n
    order,        \* Schedule.order: n rows, each a sequence of event indices
    scores,       \* Schedule.scores
    last,         \* the most recent call and how it ended
    gen,          \* SpecOpt: the optimize call under way: asked for, done, running
    report        \* what the most recent render / individual_wait_times returned

vars == <<now, thr, verdict, assoc, events, perm, agenda, wtc, pos, t, ret,
          stakeholders, t0, n, order, scores, last, gen, report>>

timeVars  == <<now, thr, verdict, assoc>>
walkVars  == <<wtc, pos, t, ret>>
schedVars == <<stakeholders, t0, n, order, scores>>
callVars  == <<gen, report>>

-----------------------------------------------------------------------------
(* Bounds of the model *)

\* SpecIter: the longest permutation expanded.
MaxLen == 21
\* SpecWalk: the largest number of events in a scoring pass.
MaxWalk == 4
\* Spec: the largest generation_size.
MaxPop == 4
\* Spec: the largest number of events of a Schedule.
MaxEvents == 3
\* SpecOpt: the largest ngenerations handed to optimize.
MaxGen == 2

-----------------------------------------------------------------------------
(* Time *)

\* Time.__init__(hour, minute): datetime(2019, 1, 1, hour, minute)
TimeNew(hour, minute) == [day |-> 1, hour |-> hour, minute |-> minute]

\* Time.__iadd__: self.t += timedelta(minutes=minutes), the datetime carrying
\* minutes into hours and hours into days
TimeIAdd(self, minutes) ==
    LET total == self.minute + minutes
        h     == self.hour + (total \div 60)
    IN  [day |-> self.day + (h \div 24), hour |-> h % 24, minute |-> total % 60]

\* Time.__add__: a new Time built from self's hour and minute only, then += minutes
TimeAdd(self, minutes) == TimeIAdd(TimeNew(self.hour, self.minute), minutes)

\* a plausible slip: <= for <
TimeLtOrEqual(a, b) ==
    \/ a.day < b.day
    \/ a.day = b.day /\ a.hour < b.hour
    \/ a.day = b.day /\ a.hour = b.hour /\ a.minute <= b.minute

\* Time.__lt__: the datetimes compared, field by field
TimeLt(a, b) ==
    \/ a.day < b.day
    \/ a.day = b.day /\ a.hour < b.hour
    \/ a.day = b.day /\ a.hour = b.hour /\ a.minute < b.minute

\* Time.__gt__
TimeGt(a, b) ==
    \/ a.day > b.day
    \/ a.day = b.day /\ a.hour > b.hour
    \/ a.day = b.day /\ a.hour = b.hour /\ a.minute > b.minute

\* Time.__repr__: strftime('%H:%M'), as its four digits
TimeRepr(a) == <<a.hour \div 10, a.hour % 10, a.minute \div 10, a.minute % 10>>

\* T0 = Time('9:30')
T0 == TimeNew(9, 30)

\* not_before(time): the closure over t
not_before(time) == [kind |-> "not_before", t |-> time]

\* not_after(time)
not_after(time) == [kind |-> "not_after", t |-> time]

\* a plausible slip: the two comparisons exchanged
checker_swapped(c, x) == IF c.kind = "not_before" THEN TimeGt(x, c.t) ELSE TimeLt(x, c.t)

\* checker(x): x < t for not_before, x > t for not_after
checker(c, x) == IF c.kind = "not_before" THEN TimeLt(x, c.t) ELSE TimeGt(x, c.t)

-----------------------------------------------------------------------------
(* Events *)

Names == <<"e01", "e02", "e03", "e04", "e05", "e06", "e07", "e08", "e09", "e10",
           "e11", "e12", "e13", "e14", "e15", "e16", "e17", "e18", "e19", "e20",
           "e21", "e22", "e23", "e24", "e25", "e26">>

\* Events.__init__
EventsNew(evs, break_every, lunch_after) ==
    [events |-> evs, break_every |-> break_every, lunch_after |-> lunch_after,
     lunch_duration |-> 60, break_duration |-> 15, event_duration |-> 15]

\* Events.__len__
EventsLen(self) == Len(self.events)

\* a plausible slip: the break tested first and the lunch not as its alternative
AfterEventBoth(self, i, k) ==
    LET brk == IF i = self.break_every
               THEN <<[name |-> "Break", constraints |-> <<>>, duration |-> self.break_duration]>>
               ELSE <<>>
        lun == IF k = self.lunch_after
               THEN <<[name |-> "Lunch", constraints |-> <<>>, duration |-> self.lunch_duration]>>
               ELSE <<>>
    IN  [yield |-> brk \o lun, i |-> IF k = self.lunch_after THEN 0 ELSE i, k |-> k]

\* a plausible slip: the lunch counter reset with the break counter
AfterEventResetK(self, i, k) ==
    IF k = self.lunch_after
    THEN [yield |-> <<[name |-> "Lunch", constraints |-> <<>>, duration |-> self.lunch_duration]>>,
          i |-> 0, k |-> 0]
    ELSE IF i = self.break_every
    THEN [yield |-> <<[name |-> "Break", constraints |-> <<>>, duration |-> self.break_duration]>>,
          i |-> i, k |-> k]
    ELSE [yield |-> <<>>, i |-> i, k |-> k]

\* a plausible slip: >= for == in the break test
AfterEventAtLeast(self, i, k) ==
    IF k = self.lunch_after
    THEN [yield |-> <<[name |-> "Lunch", constraints |-> <<>>, duration |-> self.lunch_duration]>>,
          i |-> 0, k |-> k]
    ELSE IF i >= self.break_every
    THEN [yield |-> <<[name |-> "Break", constraints |-> <<>>, duration |-> self.break_duration]>>,
          i |-> i, k |-> k]
    ELSE [yield |-> <<>>, i |-> i, k |-> k]

\* Events.iterate, the end of the loop body: with the counters already
\* incremented, what is yielded after the event and the counters it leaves
AfterEvent(self, i, k) ==
    IF k = self.lunch_after
    THEN [yield |-> <<[name |-> "Lunch", constraints |-> <<>>, duration |-> self.lunch_duration]>>,
          i |-> 0, k |-> k]
    ELSE IF i = self.break_every
    THEN [yield |-> <<[name |-> "Break", constraints |-> <<>>, duration |-> self.break_duration]>>,
          i |-> i, k |-> k]
    ELSE [yield |-> <<>>, i |-> i, k |-> k]

\* a plausible slip: the events taken in their own order, not in ord's
RECURSIVE IterateFromUnpermuted(_, _, _, _, _)
IterateFromUnpermuted(self, ord, p, i, k) ==
    IF p > Len(ord) THEN <<>>
    ELSE LET ev    == self.events[p]
             after == AfterEvent(self, i + 1, k + 1)
         IN  <<[name |-> ev.name, constraints |-> ev.constraints,
                duration |-> self.event_duration]>>
             \o after.yield
             \o IterateFromUnpermuted(self, ord, p + 1, after.i, after.k)

\* Events.iterate, the loop from position p of ord with counters i, k
RECURSIVE IterateFrom(_, _, _, _, _)
IterateFrom(self, ord, p, i, k) ==
    IF p > Len(ord) THEN <<>>
    ELSE LET ev    == self.events[ord[p] + 1]
             after == AfterEvent(self, i + 1, k + 1)
         IN  <<[name |-> ev.name, constraints |-> ev.constraints,
                duration |-> self.event_duration]>>
             \o after.yield
             \o IterateFrom(self, ord, p + 1, after.i, after.k)

\* Events.iterate(order): everything the generator yields
iterate(self, ord) == IterateFrom(self, ord, 1, 0, 0)

-----------------------------------------------------------------------------
(* WaitTimeCounter *)

\* list(observed): the elements of a set in some order
RECURSIVE SetToSeq(_)
SetToSeq(S) ==
    IF S = {} THEN <<>>
    ELSE LET x == CHOOSE y \in S : TRUE IN <<x>> \o SetToSeq(S \ {x})

\* list.index(name): the first position holding name (1-based here)
Index(lst, name) == CHOOSE i \in 1..Len(lst) : lst[i] = name /\ \A j \in 1..(i - 1) : lst[j] # name

\* list.pop(i)
Pop(lst, i) == SubSeq(lst, 1, i - 1) \o SubSeq(lst, i + 1, Len(lst))

\* WaitTimeCounter.__init__
WaitTimeCounterNew(observed, constraints) ==
    [observed |-> SetToSeq(observed), constraints |-> constraints,
     active |-> FALSE, total_time |-> 0]

\* sum([f(t) for f in constraints])
SumChecks(constraints, x) ==
    Cardinality({j \in 1..Len(constraints) : checker(constraints[j], x)})

\* a plausible slip: the window closed before the closing item is counted
appendCloseFirst(self, name, duration, x) ==
    LET seen   == \E i \in 1..Len(self.observed) : self.observed[i] = name
        obs    == IF seen THEN Pop(self.observed, Index(self.observed, name))
                  ELSE self.observed
        active == (seen \/ self.active) /\ Len(obs) # 0
    IN  [self |-> [observed |-> obs, constraints |-> self.constraints,
                   active |-> active,
                   total_time |-> IF active THEN self.total_time + duration
                                  ELSE self.total_time],
         violations |-> IF active THEN SumChecks(self.constraints, x) ELSE 0]

\* a plausible slip: the constraints evaluated whether the counter is active
\* or not
appendAlwaysChecks(self, name, duration, x) ==
    LET seen   == \E i \in 1..Len(self.observed) : self.observed[i] = name
        obs    == IF seen THEN Pop(self.observed, Index(self.observed, name))
                  ELSE self.observed
        active == seen \/ self.active
    IN  [self |-> [observed |-> obs, constraints |-> self.constraints,
                   active |-> active /\ Len(obs) # 0,
                   total_time |-> IF active THEN self.total_time + duration
                                  ELSE self.total_time],
         violations |-> SumChecks(self.constraints, x)]

\* WaitTimeCounter.append(name, duration, t): the counter it leaves and the
\* violations it returns
append(self, name, duration, x) ==
    LET seen   == \E i \in 1..Len(self.observed) : self.observed[i] = name
        obs    == IF seen THEN Pop(self.observed, Index(self.observed, name))
                  ELSE self.observed
        active == seen \/ self.active
    IN  [self |-> [observed |-> obs, constraints |-> self.constraints,
                   active |-> active /\ Len(obs) # 0,
                   total_time |-> IF active THEN self.total_time + duration
                                  ELSE self.total_time],
         violations |-> IF active THEN SumChecks(self.constraints, x) ELSE 0]

-----------------------------------------------------------------------------
(* Schedule: scoring and reporting *)

\* sum(f[x] for x in S)
RECURSIVE SumOver(_, _)
SumOver(f, S) ==
    IF S = {} THEN 0
    ELSE LET x == CHOOSE y \in S : TRUE IN f[x] + SumOver(f, S \ {x})

\* Schedule.individual_wait_times, the loop over the items from position p
RECURSIVE WalkFrom(_, _, _, _, _, _)
WalkFrom(self, items, p, wait_times, x, violations) ==
    IF p > Len(items)
    THEN [wait_times |-> [name \in DOMAIN wait_times |-> wait_times[name].total_time],
          violations |-> violations]
    ELSE LET item == items[p]
             own  == SumChecks(item.constraints, x)
             res  == [name \in DOMAIN self.stakeholders |->
                        append(wait_times[name], item.name, item.duration, x)]
         IN  WalkFrom(self, items, p + 1,
                      [name \in DOMAIN self.stakeholders |-> res[name].self],
                      TimeAdd(x, item.duration),
                      violations + own
                        + SumOver([name \in DOMAIN self.stakeholders |-> res[name].violations],
                                  DOMAIN self.stakeholders))

\* Schedule.individual_wait_times(order)
individual_wait_times(self, ord) ==
    WalkFrom(self, iterate(self.events, ord), 1,
             [name \in DOMAIN self.stakeholders |->
                WaitTimeCounterNew(self.stakeholders[name].focus,
                                   self.stakeholders[name].constraints)],
             self.t0, 0)

\* a plausible slip: the weight of a violation
scoreWeight100(self, ord) ==
    LET r == individual_wait_times(self, ord)
    IN  100 * r.violations + SumOver(r.wait_times, DOMAIN r.wait_times)

\* Schedule.score(order)
score(self, ord) ==
    LET r == individual_wait_times(self, ord)
    IN  1000 * r.violations + SumOver(r.wait_times, DOMAIN r.wait_times)

\* a plausible slip: the last row of the array for the first
default_order_last(self) == self.order[Len(self.order)]

\* individual_wait_times(order=None): order = self.order[0]
default_order(self) == self.order[1]

\* Schedule.render, the loop over the items from position p with the local
\* t0 at x: one line per item, the template's four fields
RECURSIVE RenderFrom(_, _, _, _)
RenderFrom(self, items, p, x) ==
    IF p > Len(items) THEN <<>>
    ELSE LET item == items[p]
             names == SelectSeq(SetToSeq(DOMAIN self.stakeholders),
                                LAMBDA name : item.name \in self.stakeholders[name].focus)
             t1 == TimeAdd(x, item.duration)
         IN  <<[start |-> TimeRepr(x), end |-> TimeRepr(t1), name |-> item.name,
                stakeholders |-> names]>>
             \o RenderFrom(self, items, p + 1, t1)

\* Schedule.render(idx): the lines of candidate idx (0-based)
render(self, idx) ==
    RenderFrom(self, iterate(self.events, self.order[idx + 1]), 1, self.t0)

-----------------------------------------------------------------------------
(* Schedule: ranking and breeding *)

\* a plausible slip: the scores ranked from the largest down
argsort_descending(scs) ==
    {i \in Permutations(1..Len(scs)) :
        \A a, b \in 1..Len(scs) : a < b => scs[i[a]] >= scs[i[b]]}

\* np.argsort(scores): an index array that sorts scores ascending; the
\* default sort is not stable, so equal scores may come in any order
argsort(scs) ==
    {i \in Permutations(1..Len(scs)) :
        \A a, b \in 1..Len(scs) : a < b => scs[i[a]] <= scs[i[b]]}

\* a plausible slip: the scores sorted, the orders left as they were
sort_by_rank_scores_only(orders, scs) ==
    {[order |-> orders, scores |-> [a \in 1..Len(scs) |-> scs[i[a]]]] : i \in argsort(scs)}

\* Schedule.sort_by_rank(orders, scores): orders[i], scores[i]
sort_by_rank(orders, scs) ==
    {[order  |-> [a \in 1..Len(scs) |-> orders[i[a]]],
      scores |-> [a \in 1..Len(scs) |-> scs[i[a]]]] : i \in argsort(scs)}

\* Schedule.refresh: every row scored, then rows and scores sorted together
refresh(self, orders) ==
    sort_by_rank(orders, [a \in 1..Len(orders) |-> score(self, orders[a])])

\* np.random.permutation(m): the permutations of 0..m-1
Permutation(m) ==
    {p \in [1..m -> 0..(m - 1)] : \A a, b \in 1..m : a # b => p[a] # p[b]}

\* a plausible slip: order[i] = order[j] without the tuple, one value copied
\* over the other
SwapSequential(ord, i, j) ==
    [a \in 1..Len(ord) |-> IF a = i + 1 THEN ord[j + 1] ELSE ord[a]]

\* order[i], order[j] = order[j], order[i] (0-based i, j)
Swap(ord, i, j) ==
    [a \in 1..Len(ord) |-> IF a = i + 1 THEN ord[j + 1]
                           ELSE IF a = j + 1 THEN ord[i + 1] ELSE ord[a]]

\* np.random.randint(high): an integer of 0..high-1
randint(high) == 0..(high - 1)

\* Schedule.compete, one pass of the loop body with idx drawn from parents:
\* the row appended to new_order, or the exception raised (order[idx] outside
\* the array: IndexError; randint(0, size=2) with no events: ValueError)
CompeteBodyFrom(self, parents) ==
    UNION {
        IF idx >= Len(self.order)
        THEN {[raised |-> "IndexError", order |-> <<>>]}
        ELSE {[raised |-> "none", order |-> self.order[idx + 1]]}
             \cup
             (IF EventsLen(self.events) = 0
              THEN {[raised |-> "ValueError", order |-> <<>>]}
              ELSE {[raised |-> "none", order |-> Swap(self.order[idx + 1], i, j)] :
                        i \in randint(EventsLen(self.events)),
                        j \in randint(EventsLen(self.events))})
        : idx \in parents}

\* a plausible slip: the parent drawn from 0..nbest, as random.randint would
CompeteBodyInclusive(self, nbest) == CompeteBodyFrom(self, 0..nbest)

\* Schedule.compete, one pass of the loop body: idx = np.random.randint(nbest)
CompeteBody(self, nbest) == CompeteBodyFrom(self, randint(nbest))

-----------------------------------------------------------------------------
(* Values of the variables a specification does not use *)

NoCall == [op |-> "init", nbest |-> 0, raised |-> "none"]
NoVerdict == [kind |-> "none", result |-> FALSE]
NoSums == [kind |-> "none", d1 |-> 0, d2 |-> 0, lhs |-> T0, rhs |-> T0]

IdleTime == now = T0 /\ thr = T0 /\ verdict = NoVerdict /\ assoc = NoSums
IdleIter == perm = <<>> /\ agenda = <<>>
IdleWalk == wtc = WaitTimeCounterNew({}, <<>>) /\ pos = 0 /\ t = T0 /\ ret = 0
IdleSched == stakeholders = <<>> /\ t0 = T0 /\ n = 0 /\ order = <<>> /\ scores = <<>>

NoRun == [asked |-> 0, done |-> 0, running |-> FALSE]
NoReport == [kind |-> "none", lines |-> <<>>, wait_times |-> <<>>, violations |-> 0]
IdleCalls == gen = NoRun /\ report = NoReport

-----------------------------------------------------------------------------
(* SpecTime: Time values, their sums and the two checkers *)

\* the Times built from "HH:MM" strings
ClockInputs == {TimeNew(h, m) : h \in {0, 9, 12, 23}, m \in {0, 30, 50}}
ThresholdInputs == {TimeNew(9, 30), TimeNew(10, 10), TimeNew(12, 0), TimeNew(23, 0)}
Durations == {0, 15, 20, 60, 120, 600}

InitTime ==
    /\ now \in ClockInputs
    /\ thr \in ThresholdInputs
    /\ verdict = NoVerdict
    /\ assoc = NoSums
    /\ events = EventsNew(<<>>, 5, 10)
    /\ IdleIter /\ IdleWalk /\ IdleSched /\ IdleCalls
    /\ last = NoCall

\* x = x + d
Advance(d) ==
    /\ now' = TimeAdd(now, d)
    /\ verdict' = NoVerdict
    /\ assoc' = NoSums
    /\ UNCHANGED <<thr, events, perm, agenda, walkVars, schedVars, last, callVars>>

\* not_before(thr)(x)
CallNotBefore ==
    /\ verdict' = [kind |-> "not_before", result |-> checker(not_before(thr), now)]
    /\ assoc' = NoSums
    /\ UNCHANGED <<now, thr, events, perm, agenda, walkVars, schedVars, last, callVars>>

\* not_after(thr)(x)
CallNotAfter ==
    /\ verdict' = [kind |-> "not_after", result |-> checker(not_after(thr), now)]
    /\ assoc' = NoSums
    /\ UNCHANGED <<now, thr, events, perm, agenda, walkVars, schedVars, last, callVars>>

\* (x + d1) + d2 and x + (d1 + d2)
AddTwice(d1, d2) ==
    /\ assoc' = [kind |-> "sums", d1 |-> d1, d2 |-> d2,
                 lhs |-> TimeAdd(TimeAdd(now, d1), d2),
                 rhs |-> TimeAdd(now, d1 + d2)]
    /\ verdict' = NoVerdict
    /\ UNCHANGED <<now, thr, events, perm, agenda, walkVars, schedVars, last, callVars>>

NextTime ==
    \/ \E d \in Durations : Advance(d)
    \/ CallNotBefore
    \/ CallNotAfter
    \/ \E d1, d2 \in Durations : AddTwice(d1, d2)

SpecTime == InitTime /\ [][NextTime]_vars

\* minutes since the start of the reference day
AbsMinutes(a) == (a.day - 1) * 1440 + a.hour * 60 + a.minute

\* C8: the not_before(T) checker reports a violation at x iff x is strictly
\* earlier than T, and the not_after(T) checker iff x is strictly later than T;
\* neither reports one at x = T.
C8_CheckersStrict ==
    /\ verdict.kind = "not_before" => (verdict.result <=> AbsMinutes(now) < AbsMinutes(thr))
    /\ verdict.kind = "not_after"  => (verdict.result <=> AbsMinutes(now) > AbsMinutes(thr))

\* C8 witness: not_before(T) was called at x = T, a Time reached by adding, and reported nothing
C8_Witness ==
    /\ verdict.kind = "not_before"
    /\ now = thr
    /\ now = TimeNew(10, 10)
    /\ ~verdict.result

\* C9: (t + d1) + d2 and t + (d1 + d2) format to the same HH:MM and neither
\* compares strictly earlier or later than the other.
C9_Associative ==
    assoc.kind = "sums" =>
        /\ TimeRepr(assoc.lhs) = TimeRepr(assoc.rhs)
        /\ ~TimeLt(assoc.lhs, assoc.rhs)
        /\ ~TimeGt(assoc.lhs, assoc.rhs)

-----------------------------------------------------------------------------
(* SpecIter: Events.iterate on permutations of up to MaxLen events *)

\* m events without constraints
PlainEvents(m) == [a \in 1..m |-> [name |-> Names[a], constraints |-> <<>>]]

\* m events; "first": e01 must not start after 09:30; "late": e02 must not
\* start before 10:00
ConstrainedEvents(m, pattern) ==
    [a \in 1..m |->
        [name |-> Names[a],
         constraints |->
            IF pattern = "first" /\ a = 1 THEN <<not_after(T0)>>
            ELSE IF pattern = "late" /\ a = 2 THEN <<not_before(TimeNew(10, 0))>>
            ELSE <<>>]]

\* the permutations of 0..m-1 expanded: in order, reversed, rotated, first two swapped
PermFamily(m) ==
    {[a \in 1..m |-> a - 1],
     [a \in 1..m |-> m - a],
     [a \in 1..m |-> a % m],
     [a \in 1..m |-> IF a = 1 /\ m > 1 THEN 1 ELSE IF a = 2 THEN 0 ELSE a - 1]}

BreakEveryInputs == {1, 2, 3, 5}
LunchAfterInputs == {1, 2, 4, 10}

InitIter ==
    /\ \E m \in 0..MaxLen, be \in BreakEveryInputs, la \in LunchAfterInputs,
          pattern \in {"plain", "first", "late"} :
          /\ events = EventsNew(ConstrainedEvents(m, pattern), be, la)
          /\ perm \in PermFamily(m)
    /\ agenda = <<>>
    /\ last = NoCall
    /\ IdleTime /\ IdleWalk /\ IdleSched /\ IdleCalls

\* list(events.iterate(perm))
Expand ==
    /\ agenda' = iterate(events, perm)
    /\ last' = [op |-> "iterate", nbest |-> 0, raised |-> "none"]
    /\ UNCHANGED <<timeVars, events, perm, walkVars, schedVars, callVars>>

NextIter == Expand

SpecIter == InitIter /\ [][NextIter]_vars

Synthetic(item) == item.name \in {"Lunch", "Break"}

\* where the e-th event (1-based) stands in the agenda ag
EventPos(ag, e) ==
    CHOOSE q \in 1..Len(ag) :
        ~Synthetic(ag[q]) /\ Cardinality({r \in 1..q : ~Synthetic(ag[r])}) = e

NumEvents(ag) == Cardinality({r \in 1..Len(ag) : ~Synthetic(ag[r])})

\* the names of the items between the e-th event and the next event (or the end)
After(ag, e) ==
    LET q   == EventPos(ag, e)
        nxt == IF e < NumEvents(ag) THEN EventPos(ag, e + 1) ELSE Len(ag) + 1
    IN  [a \in 1..(nxt - q - 1) |-> ag[q + a].name]

LunchFollows(ag, e) == \E a \in 1..Len(After(ag, e)) : After(ag, e)[a] = "Lunch"
BreakFollows(ag, e) == \E a \in 1..Len(After(ag, e)) : After(ag, e)[a] = "Break"

\* how many events, the e-th included, came since the last Break or Lunch before it
SinceLast(ag, e) ==
    LET prior == {f \in 1..(e - 1) : Len(After(ag, f)) > 0}
    IN  e - (IF prior = {} THEN 0 ELSE CHOOSE f \in prior : \A g \in prior : g <= f)

Expanded == last.op = "iterate"

\* C3 as stated: a Lunch follows every lunch_after-th event, the lunch counter
\* restarting at each Lunch (after the 10th and again after the 20th event).
C3_LunchEvery ==
    Expanded =>
        \A e \in 1..Len(perm) :
            LunchFollows(agenda, e) <=> (e % events.lunch_after = 0)

\* C3 amended: a Lunch follows the lunch_after-th event and no other event (the
\* lunch counter is never reset), and the Lunch resets the break counter: the
\* next Break follows the break_every-th event counted from the Lunch, none sooner.
C3_LunchOnce ==
    Expanded =>
        \A e \in 1..Len(perm) :
            /\ LunchFollows(agenda, e) <=> (e = events.lunch_after)
            /\ (e > events.lunch_after /\ e < events.lunch_after + events.break_every)
                 => ~BreakFollows(agenda, e)
            /\ e = events.lunch_after + events.break_every => BreakFollows(agenda, e)

\* C3 witness: 20 events or more with lunch_after = 10, expanded, hold one Lunch
C3_Witness ==
    /\ Expanded
    /\ events.lunch_after = 10
    /\ Len(perm) >= 20
    /\ LunchFollows(agenda, 10)
    /\ ~LunchFollows(agenda, 20)

\* C4: a Break follows an event iff no Lunch follows it and it is the
\* break_every-th event since the last Break or Lunch (with break_every = 3 and
\* lunch_after = 10: after the 3rd, 6th and 9th events).
C4_BreakEvery ==
    Expanded =>
        \A e \in 1..Len(perm) :
            BreakFollows(agenda, e) <=>
                (~LunchFollows(agenda, e) /\ SinceLast(agenda, e) = events.break_every)

\* C5: no event is followed by both a Break and a Lunch; where the lunch is due
\* and lunch_after is a multiple of break_every, the one item that follows is a Lunch.
C5_NeverBoth ==
    Expanded =>
        \A e \in 1..Len(perm) :
            /\ Len(After(agenda, e)) <= 1
            /\ (e = events.lunch_after /\ events.lunch_after % events.break_every = 0)
                 => After(agenda, e) = <<"Lunch">>

\* C5 witness: break_every = lunch_after = 2, so both counters stand at their
\* thresholds after the 2nd event, and only a Lunch follows it
C5_Witness ==
    /\ Expanded
    /\ events.break_every = 2 /\ events.lunch_after = 2
    /\ Len(perm) >= 3
    /\ After(agenda, 2) = <<"Lunch">>

\* C6: with break_every = 5 and lunch_after = 10, 12 events expand to 14 items:
\* one Break, right after the 5th event, and one Lunch, right after the 10th.
C6_TwelveEvents ==
    (Expanded /\ events.break_every = 5 /\ events.lunch_after = 10 /\ Len(perm) = 12) =>
        /\ Len(agenda) = 14
        /\ {q \in 1..Len(agenda) : agenda[q].name = "Break"} = {6}
        /\ {q \in 1..Len(agenda) : agenda[q].name = "Lunch"} = {12}
        /\ After(agenda, 5) = <<"Break">>
        /\ After(agenda, 10) = <<"Lunch">>
        /\ \A q \in 1..5 : agenda[q].name = Names[perm[q] + 1]
        /\ \A q \in 6..10 : agenda[q + 1].name = Names[perm[q] + 1]
        /\ \A q \in 11..12 : agenda[q + 2].name = Names[perm[q] + 1]

\* C6 witness: such a permutation of 12 events has been expanded
C6_Witness ==
    /\ Expanded
    /\ events.break_every = 5 /\ events.lunch_after = 10
    /\ Len(perm) = 12
    /\ perm[1] = 11
    /\ Len(agenda) = 14

-----------------------------------------------------------------------------
(* SpecWalk: one scoring pass, item by item, for a single stakeholder *)

\* the (break_every, lunch_after) pairs of a pass: the defaults and pairs
\* small enough to put breaks and a lunch among MaxWalk events
BreakLunchInputs == {<<5, 10>>, <<1, 2>>, <<2, 3>>}

StakeholderConstraintInputs ==
    {<<>>,
     <<not_after(TimeNew(10, 0))>>,
     <<not_before(TimeNew(9, 45)), not_after(TimeNew(10, 30))>>,
     <<not_before(TimeNew(10, 15)), not_before(TimeNew(9, 45))>>}

InitWalk ==
    /\ \E m \in 0..MaxWalk, bl \in BreakLunchInputs :
          /\ events = EventsNew(PlainEvents(m), bl[1], bl[2])
          /\ perm \in Permutation(m)
    /\ agenda = iterate(events, perm)
    /\ \E focus \in SUBSET {Names[a] : a \in 1..MaxWalk},
          constraints \in StakeholderConstraintInputs :
          stakeholders = [name \in {"ann"} |-> [focus |-> focus, constraints |-> constraints]]
    /\ wtc = WaitTimeCounterNew(stakeholders["ann"].focus, stakeholders["ann"].constraints)
    /\ t0 = T0
    /\ t = t0
    /\ pos = 0
    /\ ret = 0
    /\ n = 0 /\ order = <<>> /\ scores = <<>>
    /\ last = NoCall
    /\ IdleTime /\ IdleCalls

\* one turn of the loop of individual_wait_times: the next item appended to
\* the counter, the clock advanced by its duration
AppendNext ==
    /\ pos < Len(agenda)
    /\ LET item == agenda[pos + 1]
           r    == append(wtc, item.name, item.duration, t)
       IN  /\ wtc' = r.self
           /\ ret' = r.violations
           /\ t' = TimeAdd(t, item.duration)
    /\ pos' = pos + 1
    /\ last' = [op |-> "append", nbest |-> 0, raised |-> "none"]
    /\ UNCHANGED <<timeVars, events, perm, agenda, stakeholders, t0, n, order, scores, callVars>>

NextWalk == AppendNext

SpecWalk == InitWalk /\ [][NextWalk]_vars

\* the agenda positions of the stakeholder's focus events
FocusPositions == {q \in 1..Len(agenda) : agenda[q].name \in stakeholders["ann"].focus}
FirstFocus == CHOOSE q \in FocusPositions : \A r \in FocusPositions : q <= r
LastFocus == CHOOSE q \in FocusPositions : \A r \in FocusPositions : r <= q
AllFocusOccur ==
    \A f \in stakeholders["ann"].focus : \E q \in 1..Len(agenda) : agenda[q].name = f

\* C7: for a stakeholder whose focus events all occur in the agenda, active is
\* false until the first focus event is appended and false once the last one
\* has been appended, and after the full pass total_time is the sum of the
\* durations of the items from the first focus event through the last.
C7_WindowTotal ==
    AllFocusOccur =>
        IF FocusPositions = {}
        THEN ~wtc.active /\ wtc.total_time = 0
        ELSE /\ pos < FirstFocus => (~wtc.active /\ wtc.total_time = 0)
             /\ pos >= LastFocus => ~wtc.active
             /\ pos = Len(agenda) =>
                  wtc.total_time =
                      SumOver([q \in FirstFocus..LastFocus |-> agenda[q].duration],
                              FirstFocus..LastFocus)

\* C7 witness: a full pass whose window opens after the first item, closes
\* before the last and holds a Lunch or a Break between two focus events
C7_Witness ==
    /\ AllFocusOccur
    /\ Cardinality(stakeholders["ann"].focus) = 2
    /\ pos = Len(agenda)
    /\ FirstFocus > 1
    /\ LastFocus < Len(agenda)
    /\ \E q \in FirstFocus..LastFocus : Synthetic(agenda[q])
    /\ wtc.total_time > 30

-----------------------------------------------------------------------------
(* Spec: a Schedule, constructed, bred by compete and queried by render and
   individual_wait_times; SpecOpt: the same Schedule run by optimize *)

\* the stakeholders dictionaries
StakeholderInputs ==
    [nobody |-> <<>>,
     pair   |-> [name \in {"ann"} |-> [focus |-> {"e01", "e03"}, constraints |-> <<>>]],
     cons   |-> [name \in {"ann", "bob"} |->
                    IF name = "ann"
                    THEN [focus |-> {"e01", "e02"},
                          constraints |-> <<not_after(TimeNew(10, 0))>>]
                    ELSE [focus |-> {"e02", "e03"},
                          constraints |-> <<not_before(TimeNew(9, 45))>>]],
     never  |-> [name \in {"ann"} |->
                    [focus |-> {"e01"}, constraints |-> <<not_before(TimeNew(23, 0))>>]],
     ghost  |-> [name \in {"ann", "bob"} |->
                    IF name = "ann"
                    THEN [focus |-> {"e01", "zzz"}, constraints |-> <<>>]
                    ELSE [focus |-> {}, constraints |-> <<not_after(T0)>>]]]

\* the configurations a Schedule is built from: event constraints,
\* stakeholders, (break_every, lunch_after)
ScheduleInputs ==
    {<<"plain", "nobody", <<5, 10>>>>,
     <<"plain", "pair",   <<5, 10>>>>,
     <<"plain", "pair",   <<1, 2>>>>,
     <<"first", "cons",   <<2, 3>>>>,
     <<"late",  "cons",   <<5, 10>>>>,
     <<"plain", "never",  <<5, 10>>>>,
     <<"first", "ghost",  <<1, 2>>>>,
     <<"late",  "pair",   <<2, 3>>>>}

\* the nbest arguments of compete: 4 is the default, optimize's
NbestInputs == {1, 2, 4}

\* the Schedule object the methods read
Self ==
    [events |-> events, stakeholders |-> stakeholders, t0 |-> t0, n |-> n, order |-> order]

\* Schedule.__init__: n random permutations, then refresh
Init ==
    /\ \E size \in 1..MaxPop, m \in 0..MaxEvents, cfg \in ScheduleInputs :
          /\ size + m <= 5    \* larger populations only of shorter permutations
          /\ n = size
          /\ events = EventsNew(ConstrainedEvents(m, cfg[1]), cfg[3][1], cfg[3][2])
          /\ stakeholders = StakeholderInputs[cfg[2]]
    /\ t0 = T0
    /\ \E rows \in [1..n -> Permutation(EventsLen(events))] :
          \E r \in refresh([events |-> events, stakeholders |-> stakeholders,
                            t0 |-> t0, n |-> n, order |-> rows], rows) :
              /\ order = r.order
              /\ scores = r.scores
    /\ last = NoCall
    /\ IdleTime /\ IdleIter /\ IdleWalk /\ IdleCalls

\* Schedule.compete(nbest, pswap) with 0 < pswap < 1, what it does to the
\* Schedule: n passes of the loop body; the first exception, if any, ends the
\* call with the Schedule as it was; otherwise the new rows replace the old
\* ones and are refreshed
CompeteCall(nbest) ==
    \E new_order \in [1..n -> CompeteBody(Self, nbest)] :
        LET raising == {c \in 1..n : new_order[c].raised # "none"}
        IN  IF raising # {}
            THEN /\ last' = [op |-> "compete", nbest |-> nbest,
                             raised |-> new_order[CHOOSE c \in raising :
                                                    \A d \in raising : c <= d].raised]
                 /\ UNCHANGED <<order, scores>>
            ELSE /\ \E r \in refresh(Self, [c \in 1..n |-> new_order[c].order]) :
                        /\ order' = r.order
                        /\ scores' = r.scores
                 /\ last' = [op |-> "compete", nbest |-> nbest, raised |-> "none"]

\* a call of compete(nbest) from outside optimize
Compete(nbest) ==
    /\ CompeteCall(nbest)
    /\ report' = NoReport
    /\ UNCHANGED <<timeVars, events, perm, agenda, walkVars, stakeholders, t0, n, gen>>

\* a call of render(idx): the lines returned; t0 + duration builds new Time
\* objects, the Schedule's own t0 is not written
Render(idx) ==
    /\ idx < n
    /\ report' = [kind |-> "render", lines |-> render(Self, idx),
                  wait_times |-> <<>>, violations |-> 0]
    /\ last' = [op |-> "render", nbest |-> 0, raised |-> "none"]
    /\ UNCHANGED <<timeVars, events, perm, agenda, walkVars, schedVars, gen>>

\* a call of individual_wait_times(): the pair returned; the counters are
\* built on copies of the focus sets
IndividualWaitTimes ==
    /\ LET r == individual_wait_times(Self, default_order(Self))
       IN  report' = [kind |-> "individual_wait_times", lines |-> <<>>,
                      wait_times |-> r.wait_times, violations |-> r.violations]
    /\ last' = [op |-> "individual_wait_times", nbest |-> 0, raised |-> "none"]
    /\ UNCHANGED <<timeVars, events, perm, agenda, walkVars, schedVars, gen>>

Next ==
    \/ \E nbest \in NbestInputs : Compete(nbest)
    \/ \E idx \in 0..(MaxPop - 1) : Render(idx)
    \/ IndividualWaitTimes

Spec == Init /\ [][Next]_vars

\* Schedule.optimize(ngenerations), entering the loop: trange(ngenerations)
\* has ngenerations turns to give; with none the call is over at once
Optimize(ngenerations) ==
    /\ ~gen.running
    /\ gen' = [asked |-> ngenerations, done |-> 0, running |-> ngenerations > 0]
    /\ last' = [op |-> "optimize", nbest |-> 0, raised |-> "none"]
    /\ UNCHANGED <<timeVars, events, perm, agenda, walkVars, schedVars, report>>

\* Schedule.optimize, one turn of the loop: self.compete() with its default
\* nbest=4; an exception of compete leaves the loop and optimize, a return
\* counts one generation and the loop ends after the last of them
Generation ==
    /\ gen.running
    /\ CompeteCall(4)
    /\ gen' = IF last'.raised # "none"
              THEN [gen EXCEPT !.running = FALSE]
              ELSE [gen EXCEPT !.done = gen.done + 1,
                               !.running = gen.done + 1 < gen.asked]
    /\ UNCHANGED <<timeVars, events, perm, agenda, walkVars, stakeholders, t0, n, report>>

NextOpt ==
    \/ \E ngenerations \in 0..MaxGen : Optimize(ngenerations)
    \/ Generation

SpecOpt == Init /\ [][NextOpt]_vars

\* C1: after construction and after every compete, scores is sorted ascending
\* and scores[i] is the score of order[i] computed afresh; there are n of each.
C1_SortedAligned ==
    /\ Len(order) = n
    /\ Len(scores) = n
    /\ \A a \in 1..n : scores[a] = score(Self, order[a])
    /\ \A a, b \in 1..n : a < b => scores[a] <= scores[b]

\* C1 witness: a compete has replaced the population, whose rows differ in
\* order and in score
C1_Witness ==
    /\ last.op = "compete" /\ last.raised = "none"
    /\ n >= 2
    /\ order[1] # order[2]
    /\ scores[1] < scores[n]

\* the start time of the q-th item of an agenda walked from start
RECURSIVE StartOf(_, _, _)
StartOf(items, q, start) ==
    IF q = 1 THEN start
    ELSE TimeAdd(StartOf(items, q - 1, start), items[q - 1].duration)

\* the accumulator of stakeholder name once the first q items were appended to it
RECURSIVE CounterAfter(_, _, _)
CounterAfter(name, items, q) ==
    IF q = 0
    THEN WaitTimeCounterNew(stakeholders[name].focus, stakeholders[name].constraints)
    ELSE append(CounterAfter(name, items, q - 1), items[q].name, items[q].duration,
                StartOf(items, q, t0)).self

\* what that accumulator returned for the q-th item
Returned(name, items, q) ==
    append(CounterAfter(name, items, q - 1), items[q].name, items[q].duration,
           StartOf(items, q, t0)).violations

\* V: the violations of the items' own constraints at their start times plus
\* those every accumulator returned
ViolationsOf(ord) ==
    LET items == iterate(events, ord)
        own   == [q \in 1..Len(items) |->
                    Cardinality({c \in 1..Len(items[q].constraints) :
                                    checker(items[q].constraints[c], StartOf(items, q, t0))})]
        theirs == [name \in DOMAIN stakeholders |->
                    SumOver([q \in 1..Len(items) |-> Returned(name, items, q)],
                            1..Len(items))]
    IN  SumOver(own, 1..Len(items)) + SumOver(theirs, DOMAIN stakeholders)

\* W: the total_time every accumulator ends with, summed
WaitOf(ord) ==
    LET items == iterate(events, ord)
    IN  SumOver([name \in DOMAIN stakeholders |->
                    CounterAfter(name, items, Len(items)).total_time],
                DOMAIN stakeholders)

\* C2: the score of a permutation is 1000 x V + W, V the violations found
\* walking its agenda from t0 and W the stakeholders' accumulated total_time.
C2_ScoreFormula ==
    \A a \in 1..Len(order) :
        /\ scores[a] = 1000 * ViolationsOf(order[a]) + WaitOf(order[a])
        /\ score(Self, order[a]) = scores[a]

\* C2 witness: a scored permutation with violations and with wait time
C2_Witness ==
    /\ n >= 1
    /\ ViolationsOf(order[n]) >= 2
    /\ WaitOf(order[n]) > 0
    /\ scores[n] = 1000 * ViolationsOf(order[n]) + WaitOf(order[n])

\* b is a with the values at two positions exchanged
OneTransposition(a, b) ==
    /\ Len(a) = Len(b)
    /\ \E i, j \in 1..Len(a) :
          /\ i < j
          /\ a[i] # a[j]
          /\ b[i] = a[j] /\ b[j] = a[i]
          /\ \A c \in 1..Len(a) : c \notin {i, j} => b[c] = a[c]

\* C10: a compete(nbest, pswap) that returns leaves exactly n rows, each equal
\* to one of the top nbest rows as ranked before the call or one transposition
\* away from one of them; a compete that raises replaces nothing.
C10_BredFromTop ==
    [][last'.op = "compete" =>
          IF last'.raised = "none"
          THEN /\ Len(order') = n
               /\ \A c \in 1..n :
                     \E p \in 1..n :
                        /\ p <= last'.nbest
                        /\ order'[c] = order[p] \/ OneTransposition(order[p], order'[c])
          ELSE order' = order /\ scores' = scores]_vars

\* C10 witness: a compete with nbest below n has replaced a population of
\* permutations of three events
C10_Witness ==
    /\ last.op = "compete" /\ last.raised = "none"
    /\ last.nbest < n
    /\ EventsLen(events) >= 3
    /\ order[1] # order[2]

\* C11: every row of order is a permutation of 0..len(events)-1 in every
\* state: it has len(events) entries and holds each index exactly once,
\* whichever two positions a swap drew, equal ones included
C11_RowsArePermutations ==
    \A a \in 1..Len(order) :
        /\ Len(order[a]) = EventsLen(events)
        /\ \A v \in 0..(EventsLen(events) - 1) :
              Cardinality({q \in 1..Len(order[a]) : order[a][q] = v}) = 1

\* C11 witness: a compete has returned a population of rows over three
\* events or more, two of them different and one not the identity
C11_Witness ==
    /\ last.op = "compete" /\ last.raised = "none"
    /\ EventsLen(events) >= 3
    /\ n >= 2
    /\ order[1] # order[n]
    /\ \E a \in 1..n : order[a][1] # 0

\* C12 as stated: after every compete, scores[0] is less than or equal to
\* what it was before the call
C12_BestNeverWorse ==
    [][last'.op = "compete" => scores'[1] <= scores[1]]_vars

\* C12 as the code has it: compete keeps no elite; scores[0] is less than or
\* equal to what it was whenever the new population holds the previous
\* order[0] (a copy left unswapped, or swapped with i = j)
C12_BestKeptNeverWorse ==
    [][(last'.op = "compete" /\ \E c \in 1..n : order'[c] = order[1])
          => scores'[1] <= scores[1]]_vars

\* C12 witness: a compete has returned a population whose best row has a
\* positive score and a strictly worse sibling
C12_Witness ==
    /\ last.op = "compete" /\ last.raised = "none"
    /\ EventsLen(events) >= 2
    /\ n >= 2
    /\ 0 < scores[1] /\ scores[1] < scores[2]

\* stakeholder name can never be satisfied by the agenda of ord: an event of
\* its focus is on the agenda and one of its not_before thresholds is later
\* than the start time of every item
Unsatisfiable(name, ord) ==
    LET items == iterate(events, ord)
        sh    == stakeholders[name]
    IN  /\ \E q \in 1..Len(items) : items[q].name \in sh.focus
        /\ \E j \in 1..Len(sh.constraints) :
              /\ sh.constraints[j].kind = "not_before"
              /\ \A q \in 1..Len(items) : TimeLt(StartOf(items, q, t0), sh.constraints[j].t)

\* C13: when some stakeholder with a focus event on the agenda has a
\* not_before threshold later than every item's start time, every candidate
\* scores 1000 or more, scores[0] included, after construction and after any
\* number of competes
C13_UnsatisfiableCostsThousand ==
    \A a \in 1..Len(order) :
        (\E name \in DOMAIN stakeholders : Unsatisfiable(name, order[a]))
            => scores[a] >= 1000 /\ scores[1] >= 1000

\* C13 witness: such a stakeholder, two events or more, and a compete that
\* has returned
C13_Witness ==
    /\ last.op = "compete" /\ last.raised = "none"
    /\ EventsLen(events) >= 2
    /\ \A a \in 1..n : \E name \in DOMAIN stakeholders : Unsatisfiable(name, order[a])
    /\ scores[1] >= 1000

\* C14: a compete(nbest) on a population of fewer than nbest candidates
\* completes: every parent index it draws is one of 0..n-1 and no IndexError
\* ends the call
C14_SmallPopulationCompetes ==
    (last.op = "compete" /\ n < last.nbest) => last.raised # "IndexError"

\* C15: with no events the Schedule is built and scored and every compete
\* returns: every row is the empty permutation, every score is 0, and no
\* compete, its choice of swap positions included, raises
C15_NoEventsNeverRaises ==
    (n >= 1 /\ EventsLen(events) = 0) =>
        /\ \A a \in 1..n : order[a] = <<>> /\ scores[a] = 0
        /\ last.op = "compete" => last.raised = "none"

\* C16: optimize(ngenerations) makes exactly ngenerations compete steps and
\* is over: at no moment more than asked for, when it is over as many as asked
\* for, and optimize(0) leaves order and scores as they were
C16_ExactlyNGenerations ==
    [][/\ gen'.done <= gen'.asked
       /\ ~gen'.running => gen'.done = gen'.asked
       /\ (last'.op = "optimize" /\ gen'.asked = 0) => order' = order /\ scores' = scores]_vars

\* C17: render and individual_wait_times change nothing: order, scores, t0,
\* the events and the stakeholders' focus sets are after the call what they
\* were before it; and individual_wait_times() reports on order[0]:
\* 1000 x the violations it returns + the sum of its wait times = scores[0]
C17_QueriesReadOnly ==
    [][last'.op \in {"render", "individual_wait_times"} =>
          /\ order' = order /\ scores' = scores /\ n' = n
          /\ t0' = t0 /\ events' = events /\ stakeholders' = stakeholders
          /\ last'.op = "individual_wait_times" =>
                1000 * report'.violations
                  + SumOver(report'.wait_times, DOMAIN report'.wait_times) = scores'[1]]_vars

\* C17 witness: individual_wait_times() has reported violations and a
\* wait time on a population whose first row is strictly the best
C17_Witness ==
    /\ last.op = "individual_wait_times"
    /\ report.violations >= 1
    /\ \E name \in DOMAIN report.wait_times : report.wait_times[name] > 0
    /\ n >= 2
    /\ scores[1] < scores[n]

\* the number of constraints violated at x: a not_before by a start earlier
\* than its threshold, a not_after by a later one, in minutes since midnight
\* of the first day
ViolatedAt(constraints, x) ==
    Cardinality({j \in 1..Len(constraints) :
                    IF constraints[j].kind = "not_before"
                    THEN AbsMinutes(x) < AbsMinutes(constraints[j].t)
                    ELSE AbsMinutes(x) > AbsMinutes(constraints[j].t)})

\* the window of the stakeholder holds agenda position q: a focus event is at
\* q or before it, and not all focus events were seen before q
InWindow(q) ==
    /\ \E r \in FocusPositions : r <= q
    /\ ~(AllFocusOccur /\ \A r \in FocusPositions : r < q)

\* C19: append returns 0 for an item before the first focus event and for an
\* item after the last focus event has been seen, and for an item of the
\* window, first and last focus events included, the number of the
\* stakeholder's constraints violated at the item's start time; with an empty
\* focus set the counter is never active, its total_time stays 0 and every
\* append returns 0
C19_WindowedViolations ==
    (last.op = "append" /\ pos >= 1) =>
        /\ ret = IF InWindow(pos)
                 THEN ViolatedAt(stakeholders["ann"].constraints, StartOf(agenda, pos, t0))
                 ELSE 0
        /\ stakeholders["ann"].focus = {} =>
              ~wtc.active /\ wtc.total_time = 0 /\ ret = 0

\* C19 witness: the item just appended comes after the last focus event, at
\* a start time that violates a constraint of the stakeholder, and append
\* returned 0 for it; the item of the window before it was charged
C19_Witness ==
    /\ last.op = "append"
    /\ AllFocusOccur
    /\ FocusPositions # {}
    /\ pos = LastFocus + 1
    /\ ViolatedAt(stakeholders["ann"].constraints, StartOf(agenda, pos, t0)) >= 1
    /\ ViolatedAt(stakeholders["ann"].constraints, StartOf(agenda, LastFocus, t0)) >= 1
    /\ ret = 0

\* C20: the items of iterate(order) other than Break and Lunch are the events
\* events[order[0]], events[order[1]], ... in that order, each once, each
\* with its own name and constraints and with duration event_duration; no
\* Break or Lunch comes before the first event, and none carries a constraint
C20_EventsInOrder ==
    Expanded =>
        LET real == SelectSeq(agenda, LAMBDA item : ~Synthetic(item))
        IN  /\ Len(real) = Len(perm)
            /\ \A q \in 1..Len(perm) :
                  real[q] = [name |-> events.events[perm[q] + 1].name,
                             constraints |-> events.events[perm[q] + 1].constraints,
                             duration |-> events.event_duration]
            /\ Len(agenda) > 0 => ~Synthetic(agenda[1])
            /\ \A q \in 1..Len(agenda) :
                  Synthetic(agenda[q]) => agenda[q].constraints = <<>>

\* C20 witness: a permutation other than the identity expanded into an
\* agenda with a Break, a Lunch, an event that carries a constraint and a
\* synthetic item at its end
C20_Witness ==
    /\ Expanded
    /\ Len(perm) >= 3
    /\ perm[1] # 0
    /\ \E q \in 1..Len(agenda) : agenda[q].name = "Break"
    /\ \E q \in 1..Len(agenda) : agenda[q].name = "Lunch"
    /\ \E q \in 1..Len(agenda) : agenda[q].constraints # <<>>
    /\ Synthetic(agenda[Len(agenda)])
=============================================================================
